---- MODULE Spec2Model ----
(***************************************************************************)
(* Mobile Device Manager (Redis): the device registry, the reservation     *)
(* protocol, the WDA port allocator, the Appium server pool and the        *)
(* heartbeat keys, as implemented in main.py, storage.py and               *)
(* appium_pool.py.                                                         *)
(*                                                                         *)
(* The Redis store is the shared state.  Every request handler is a        *)
(* process whose steps are the Redis round trips it makes: one command, or *)
(* one MULTI/EXEC pipeline, is one atomic step; what the handler computes  *)
(* locally between two round trips belongs to the step of the command that *)
(* precedes it.  Keys set with ex= may expire at any time.                 *)
(*                                                                         *)
(* Python's None, "" and 0 are told apart by the code only through         *)
(* truthiness (`x or ""`, `if x`, `not x`), so the model writes 0 for an   *)
(* absent port and "" for an absent string.                                *)
(***************************************************************************)
EXTENDS Integers, FiniteSets, Sequences, TLC

\* ---------------------------------------------------------------- bounds
\* Requests served in one behaviour: by two workers at once (Spec), by one
\* worker (SeqSpec).
MaxCalls == 4
MaxSeqCalls == 6
\* Requests served by one worker when clients also read (ReadSpec).
MaxReadCalls == 5
\* Requests served by two workers when the scheduling is fair (FairSpec).
MaxFairCalls == 2

\* config.py: WDA_PORT_END, an environment setting (8199 when unset).  The
\* deployment modelled here configures a range of two ports, small enough
\* for the allocator to run out.
WDA_PORT_END == 8101

\* ------------------------------------------------------------- constants
\* config.py: WDA_PORT_START.
WDA_PORT_START == 8100

\* main.py:99 passes three positional arguments to DeviceStore.reserve;
\* storage.py:124 declares two parameters besides self.
ReserveArgsGiven == 3
ReserveArgsTaken == 2

Procs == {"p1", "p2"}
Devices == {"d1", "d2"}
Platforms == {"android", "ios"}
Statuses == {"available", "in_use", "offline"}
\* Session ids are unique: the id an Appium server gives to the session that
\* worker p opens while serving request number n.
SessionNames ==
    [p1 |-> <<"s1", "s2", "s3", "s4", "s5", "s6", "s7", "s8">>,
     p2 |-> <<"t1", "t2", "t3", "t4", "t5", "t6", "t7", "t8">>]
FreshSessionId(p, n) == SessionNames[p][n]
\* Ports a client may name in a request (0: none).
ReqPorts == {0, 8100}

\* A server endpoint: a URL and the number of "/" that trail it.
Server(u, n) == [url |-> u, slashes |-> n]
\* appium_pool._normalise / config._parse_server_list: rstrip("/").
Normalise(s) == [s EXCEPT !.slashes = 0]
\* The APPIUM_SERVERS environment value, as written by the operator.
RawServers == {Server("a", 1), Server("b", 0)}
ParseServerList(raw) == {Normalise(s) : s \in raw}
APPIUM_SERVERS == ParseServerList(RawServers)
\* AppiumServerPool.__init__: self.servers / self._server_set.
PoolServers == {Normalise(s) : s \in APPIUM_SERVERS}
\* An endpoint of an earlier configuration, still in Redis.
StaleServer == Server("z", 0)
NoServer == Server("", 0)

\* ------------------------------------------------------------ the models
\* models.Device, without version/location/updated_at (never read by the
\* coordination logic).
Device(id, pf, st, cs, port, srv) ==
    [device_id |-> id, platform |-> pf, status |-> st, current_session |-> cs,
     wda_local_port |-> port, appium_server |-> srv]
NoDevice == Device("", "", "", "", 0, NoServer)

\* The Redis hash of a device; the empty hash has device_id = "".
Hash(id, pf, st, cs, port) ==
    [device_id |-> id, platform |-> pf, status |-> st, current_session |-> cs,
     wda_local_port |-> port]
EmptyHash == Hash("", "", "", "", 0)

\* storage._device_to_hash: appium_server is not among the fields written.
DeviceToHash(d) ==
    Hash(d.device_id, d.platform, d.status, d.current_session, d.wda_local_port)

\* storage._hash_to_device: appium_server is not read back, so the Device gets
\* the model's default (None).
HashToDevice(h) ==
    Device(h.device_id, h.platform, h.status, h.current_session,
           h.wda_local_port, NoServer)

\* Devices a client may POST to /devices/register for identifier id: a fresh
\* ios device without a port, an ios device already in a session on port 8100,
\* and an android device reported offline.
RegInputs(id) ==
    {Device(id, "ios", "available", "", 0, NoServer),
     Device(id, "ios", "in_use", "sidR", 8100, NoServer),
     Device(id, "android", "offline", "", 0, NoServer)}

\* Query parameters a client may send to GET /devices ("": not given).
ListInputs ==
    {[status |-> "", platform |-> ""], [status |-> "available", platform |-> "ios"]}
\* sorted(ids) of storage.list: the order of the device identifiers.
DeviceOrder == <<"d1", "d2">>

\* ----------------------------------------------------------------- state
VARIABLES
    device,       \* device:{id}        -> hash
    statusIdx,    \* idx:status:{s}     -> set of ids
    platformIdx,  \* idx:platform:{p}   -> set of ids
    lockKey,      \* lock:device:{id}   exists
    hbKey,        \* hb:device:{id}     exists
    wdaUsed,      \* used:wdalocal
    wdaPoolLock,  \* lock:wdapool       exists
    poolAvail,    \* appium:servers:available
    poolInUse,    \* appium:servers:in_use
    proc,         \* the request each worker is serving, and its locals
    calls,        \* requests accepted so far
    workers,      \* the deployment: the workers that serve requests
    budget,       \* the deployment: requests served in all
    sessions,     \* the sessions open on the Appium servers
    lockOwner     \* lock:device:{id}   the worker whose SET created the key

store == <<device, statusIdx, platformIdx, lockKey, hbKey, wdaUsed, wdaPoolLock,
           poolAvail, poolInUse>>
vars == <<device, statusIdx, platformIdx, lockKey, hbKey, wdaUsed, wdaPoolLock,
          poolAvail, poolInUse, proc, calls, workers, budget, sessions, lockOwner>>

\* What a caller can observe of device id and of the shared sets, for
\* comparing the store before and after a request.
Snapshot(id) ==
    [rec |-> device[id], idx |-> {st \in Statuses : id \in statusIdx[st]},
     pidx |-> {pf \in Platforms : id \in platformIdx[pf]},
     used |-> wdaUsed, avail |-> poolAvail, inUse |-> poolInUse]
NoSnapshot ==
    [rec |-> EmptyHash, idx |-> {}, pidx |-> {}, used |-> {}, avail |-> {},
     inUse |-> {}]

\* A worker with no request.
Idle ==
    [pc |-> "idle", op |-> "", did |-> "", req |-> NoDevice, reqPort |-> 0,
     rd |-> NoDevice, oldStatus |-> "", availRead |-> {}, inUseRead |-> {},
     wda |-> 0, hport |-> 0, srv |-> NoServer, sid |-> "",
     outcome |-> "", pre |-> NoSnapshot,
     flt |-> [status |-> "", platform |-> ""], ids |-> {}, result |-> <<>>]

InitStore ==
    /\ device = [d \in Devices |-> EmptyHash]
    /\ statusIdx = [s \in Statuses |-> {}]
    /\ platformIdx = [pf \in Platforms |-> {}]
    /\ lockKey = [d \in Devices |-> FALSE]
    /\ hbKey = [d \in Devices |-> FALSE]
    /\ wdaUsed = {}
    /\ poolAvail = {StaleServer}
    /\ poolInUse = {}
    /\ proc = [p \in Procs |-> Idle]
    /\ calls = 0
    /\ sessions = {}
    /\ lockOwner = [d \in Devices |-> ""]

\* Redis as the service finds it (empty but for an endpoint of an earlier
\* configuration, which the first pool construction removes), all workers
\* waiting.
Init ==
    /\ InitStore
    /\ wdaPoolLock = FALSE
    /\ workers = Procs
    /\ budget = MaxCalls

\* The same with a single worker: requests are served one after the other.
InitSeq ==
    /\ InitStore
    /\ wdaPoolLock = FALSE
    /\ workers = {"p1"}
    /\ budget = MaxSeqCalls

InitRead ==
    /\ InitStore
    /\ wdaPoolLock = FALSE
    /\ workers = {"p1"}
    /\ budget = MaxReadCalls

\* Redis as two workers find it after a worker was killed inside
\* allocate_wda_port, between set(WDA_POOL_LOCK) and delete(WDA_POOL_LOCK): the
\* key is there and nobody is left to delete it.  The ios device d1 had been
\* registered without a port and has sent a heartbeat.
InitCrashed ==
    /\ device = [d \in Devices |->
                   IF d = "d1" THEN DeviceToHash(Device("d1", "ios", "available", "", 0, NoServer))
                   ELSE EmptyHash]
    /\ statusIdx = [s \in Statuses |-> IF s = "available" THEN {"d1"} ELSE {}]
    /\ platformIdx = [pf \in Platforms |-> IF pf = "ios" THEN {"d1"} ELSE {}]
    /\ lockKey = [d \in Devices |-> FALSE]
    /\ hbKey = [d \in Devices |-> d = "d1"]
    /\ wdaUsed = {}
    /\ wdaPoolLock = TRUE
    /\ poolAvail = {StaleServer}
    /\ poolInUse = {}
    /\ proc = [p \in Procs |-> Idle]
    /\ calls = 0
    /\ sessions = {}
    /\ lockOwner = [d \in Devices |-> ""]
    /\ workers = Procs
    /\ budget = MaxFairCalls

\* Worker p takes the next request.  A worker that has answered keeps its
\* locals until then.  Free workers are alike, so the request goes to p1 when
\* p1 is free.
Busy(p) == proc[p].pc \notin {"idle", "done"}
Accept(p) ==
    /\ p \in workers
    /\ ~Busy(p)
    /\ p = "p1" \/ Busy("p1")
    /\ calls < budget
    /\ calls' = calls + 1
    /\ UNCHANGED <<store, workers, budget, sessions, lockOwner>>

\* The handler of worker p moves on with its locals changed to l.
Goto(p, l) == proc' = [proc EXCEPT ![p] = l]
\* The handler ends: the response is outcome o.
Finish(l, o) == [l EXCEPT !.pc = "done", !.outcome = o]

\* ------------------------------------------------- register (main.py:30)
\* The request repeats the one this worker has just answered.
Repeated(p, d) ==
    /\ proc[p].pc = "done" /\ proc[p].op = "register"
    /\ proc[p].outcome = "OK" /\ proc[p].req = d

StartRegister(p, d) ==
    /\ Accept(p)
    /\ Goto(p, [Idle EXCEPT !.pc = "reg_hgetall", !.op = "register",
                            !.did = d.device_id, !.req = d,
                            !.pre = IF Repeated(p, d) THEN Snapshot(d.device_id)
                                    ELSE NoSnapshot])

\* storage.register, lines 54-56: h = hgetall(key); old_status.
RegisterRead(p) ==
    /\ proc[p].pc = "reg_hgetall"
    /\ Goto(p, [proc[p] EXCEPT !.pc = "reg_exec",
                               !.oldStatus = device[proc[p].did].status])
    /\ UNCHANGED <<store, calls, workers, budget, sessions, lockOwner>>

\* (mutant of StoreRegister) the srem of the old status is not guarded by
\* old_status != d.status and is queued after the sadd.
StoreRegisterUnguardedSrem(d, oldStatus) ==
    /\ device' = [device EXCEPT ![d.device_id] = DeviceToHash(d)]
    /\ platformIdx' = [platformIdx EXCEPT ![d.platform] = @ \cup {d.device_id}]
    /\ statusIdx' =
         [s \in Statuses |->
            IF oldStatus # "" /\ s = oldStatus THEN statusIdx[s] \ {d.device_id}
            ELSE IF s = d.status THEN statusIdx[s] \cup {d.device_id}
                 ELSE statusIdx[s]]
    /\ wdaUsed' = IF d.platform = "ios" /\ d.wda_local_port # 0
                  THEN wdaUsed \cup {d.wda_local_port} ELSE wdaUsed

\* The pipeline of storage.register, lines 58-69.
StoreRegister(d, oldStatus) ==
    /\ device' = [device EXCEPT ![d.device_id] = DeviceToHash(d)]
    /\ platformIdx' = [platformIdx EXCEPT ![d.platform] = @ \cup {d.device_id}]
    /\ statusIdx' =
         [s \in Statuses |->
            IF s = d.status THEN statusIdx[s] \cup {d.device_id}
            ELSE IF oldStatus # "" /\ oldStatus # d.status /\ s = oldStatus
                 THEN statusIdx[s] \ {d.device_id}
                 ELSE statusIdx[s]]
    /\ wdaUsed' = IF d.platform = "ios" /\ d.wda_local_port # 0
                  THEN wdaUsed \cup {d.wda_local_port} ELSE wdaUsed

RegisterExec(p) ==
    /\ proc[p].pc = "reg_exec"
    /\ StoreRegister(proc[p].req, proc[p].oldStatus)
    /\ Goto(p, Finish(proc[p], "OK"))
    /\ UNCHANGED <<lockKey, hbKey, wdaPoolLock, poolAvail, poolInUse, calls, workers, budget, sessions, lockOwner>>

\* ------------------------------------- AppiumServerPool (appium_pool.py)
\* _ensure_servers_registered, lines 32-39, from the two sets read.
Desired == PoolServers
StaleAvailable(l) == l.availRead \ Desired
Missing(l) == Desired \ (l.availRead \cup l.inUseRead)

\* Where a handler goes once its dependencies (the store, the pool) are built.
Body(l) == IF l.op = "reserve" THEN "r_get1_hash" ELSE "x_get_hash"

\* line 29: available = smembers(AVAILABLE_SET).
PoolCtorReadAvailable(p) ==
    /\ proc[p].pc = "c_avail"
    /\ Goto(p, [proc[p] EXCEPT !.pc = "c_inuse", !.availRead = poolAvail])
    /\ UNCHANGED <<store, calls, workers, budget, sessions, lockOwner>>

\* line 30: in_use = smembers(IN_USE_SET); lines 31-39 are local.
PoolCtorReadInUse(p) ==
    /\ proc[p].pc = "c_inuse"
    /\ LET l == [proc[p] EXCEPT !.inUseRead = poolInUse]
       IN Goto(p, [l EXCEPT !.pc = IF StaleAvailable(l) # {} THEN "c_srem"
                                   ELSE IF Missing(l) # {} THEN "c_sadd"
                                   ELSE Body(l),
                            !.availRead = IF StaleAvailable(l) = {} /\ Missing(l) = {}
                                          THEN {} ELSE @,
                            !.inUseRead = IF StaleAvailable(l) = {} /\ Missing(l) = {}
                                          THEN {} ELSE @])
    /\ UNCHANGED <<store, calls, workers, budget, sessions, lockOwner>>

\* line 37: srem(AVAILABLE_SET, *stale_available).
PoolCtorRemoveStale(p) ==
    /\ proc[p].pc = "c_srem"
    /\ poolAvail' = poolAvail \ StaleAvailable(proc[p])
    /\ Goto(p, [proc[p] EXCEPT !.pc = IF Missing(proc[p]) # {} THEN "c_sadd"
                                      ELSE Body(proc[p]),
                               !.availRead = IF Missing(proc[p]) = {} THEN {} ELSE @,
                               !.inUseRead = IF Missing(proc[p]) = {} THEN {} ELSE @])
    /\ UNCHANGED <<device, statusIdx, platformIdx, lockKey, hbKey, wdaUsed,
                   wdaPoolLock, poolInUse, calls, workers, budget, sessions, lockOwner>>

\* line 41: sadd(AVAILABLE_SET, *missing).
PoolCtorAddMissing(p) ==
    /\ proc[p].pc = "c_sadd"
    /\ poolAvail' = poolAvail \cup Missing(proc[p])
    /\ Goto(p, [proc[p] EXCEPT !.pc = Body(proc[p]), !.availRead = {},
                               !.inUseRead = {}])
    /\ UNCHANGED <<device, statusIdx, platformIdx, lockKey, hbKey, wdaUsed,
                   wdaPoolLock, poolInUse, calls, workers, budget, sessions, lockOwner>>

\* (mutant of PoolRelease) the endpoint is taken out of in_use and never put
\* back among the available ones.
PoolReleaseDropsServer(server) ==
    /\ poolInUse' = poolInUse \ {Normalise(server)}
    /\ poolAvail' = poolAvail

\* AppiumServerPool.release, lines 53-58: one pipeline.
PoolRelease(server) ==
    LET normalised == Normalise(server)
    IN /\ poolInUse' = poolInUse \ {normalised}
       /\ poolAvail' = IF normalised \in PoolServers
                       THEN poolAvail \cup {normalised} ELSE poolAvail

\* ------------------------------------------------ DeviceStore.get (71-81)
\* (mutant of Liveness) the stored status is returned as it is.
LivenessIgnored(dev, hbExists) == dev

\* line 79, once ttl(HB_KEY) is known.
Liveness(dev, hbExists) ==
    IF ~hbExists /\ dev.status = "available"
    THEN [dev EXCEPT !.status = "offline"] ELSE dev

\* ------------------------------------------------ get_device (main.py:44)
StartGetDevice(p, d) ==
    /\ Accept(p)
    /\ Goto(p, [Idle EXCEPT !.pc = "g_hgetall", !.op = "get", !.did = d])

\* line 46, store.get: hgetall; lines 47-48 when the hash is empty.
GetDeviceHash(p) ==
    /\ proc[p].pc = "g_hgetall"
    /\ LET h == device[proc[p].did]
       IN IF h = EmptyHash
          THEN Goto(p, Finish(proc[p], "NotFound"))
          ELSE Goto(p, [proc[p] EXCEPT !.pc = "g_ttl", !.rd = HashToDevice(h)])
    /\ UNCHANGED <<store, calls, workers, budget, sessions, lockOwner>>

\* line 46, store.get: ttl(HB_KEY); line 49.
GetDeviceTtl(p) ==
    /\ proc[p].pc = "g_ttl"
    /\ Goto(p, Finish([proc[p] EXCEPT
                         !.result = <<Liveness(proc[p].rd, hbKey[proc[p].did])>>,
                         !.rd = NoDevice], "OK"))
    /\ UNCHANGED <<store, calls, workers, budget, sessions, lockOwner>>

\* ---------------------------------------------- list_devices (main.py:35)
StartListDevices(p, f) ==
    /\ Accept(p)
    /\ Goto(p, [Idle EXCEPT !.pc = IF f.status # "" THEN "l_status"
                                   ELSE IF f.platform # "" THEN "l_platform"
                                   ELSE "l_all_available",
                            !.op = "list", !.flt = f])

\* storage.list, line 97: the first of sorted(ids) not yet read (ids # {}).
FirstId(ids) ==
    DeviceOrder[CHOOSE i \in 1..Len(DeviceOrder) :
                  /\ DeviceOrder[i] \in ids
                  /\ \A j \in 1..(i - 1) : DeviceOrder[j] \notin ids]

\* storage.list, lines 96-101: the loop goes on with the next id, or the list
\* is returned.
ListLoop(l, ids) ==
    IF ids = {} THEN Finish([l EXCEPT !.ids = {}, !.did = ""], "OK")
    ELSE [l EXCEPT !.pc = "l_get_hash", !.ids = ids, !.did = FirstId(ids)]

\* storage.list, line 88: smembers(STATUS_IDX) of the status given.
ListStatus(p) ==
    /\ proc[p].pc = "l_status"
    /\ LET ids == statusIdx[proc[p].flt.status]
       IN IF proc[p].flt.platform # ""
          THEN Goto(p, [proc[p] EXCEPT !.pc = "l_platform", !.ids = ids])
          ELSE Goto(p, ListLoop(proc[p], ids))
    /\ UNCHANGED <<store, calls, workers, budget, sessions, lockOwner>>

\* storage.list, lines 90-91: smembers(PLATFORM_IDX); ids is None when no
\* status was given.
ListPlatform(p) ==
    /\ proc[p].pc = "l_platform"
    /\ LET pset == platformIdx[proc[p].flt.platform]
           ids == IF proc[p].flt.status = "" THEN pset ELSE proc[p].ids \cap pset
       IN Goto(p, ListLoop(proc[p], ids))
    /\ UNCHANGED <<store, calls, workers, budget, sessions, lockOwner>>

\* storage.list, lines 92-95: one smembers for each of available, in_use,
\* offline, in that order.
ListAll(p) ==
    /\ \/ /\ proc[p].pc = "l_all_available"
          /\ Goto(p, [proc[p] EXCEPT !.pc = "l_all_in_use",
                                     !.ids = statusIdx["available"]])
       \/ /\ proc[p].pc = "l_all_in_use"
          /\ Goto(p, [proc[p] EXCEPT !.pc = "l_all_offline",
                                     !.ids = @ \cup statusIdx["in_use"]])
       \/ /\ proc[p].pc = "l_all_offline"
          /\ Goto(p, ListLoop(proc[p], proc[p].ids \cup statusIdx["offline"]))
    /\ UNCHANGED <<store, calls, workers, budget, sessions, lockOwner>>

\* storage.list, line 98, self.get(did): hgetall; line 99 when it is empty.
ListGetHash(p) ==
    /\ proc[p].pc = "l_get_hash"
    /\ LET h == device[proc[p].did]
       IN IF h = EmptyHash
          THEN Goto(p, ListLoop(proc[p], proc[p].ids \ {proc[p].did}))
          ELSE Goto(p, [proc[p] EXCEPT !.pc = "l_get_ttl", !.rd = HashToDevice(h)])
    /\ UNCHANGED <<store, calls, workers, budget, sessions, lockOwner>>

\* storage.list, line 98, self.get(did): ttl(HB_KEY); line 100.
ListGetTtl(p) ==
    /\ proc[p].pc = "l_get_ttl"
    /\ LET d == Liveness(proc[p].rd, hbKey[proc[p].did])
           l == [proc[p] EXCEPT !.result = Append(@, d), !.rd = NoDevice]
       IN Goto(p, ListLoop(l, proc[p].ids \ {proc[p].did}))
    /\ UNCHANGED <<store, calls, workers, budget, sessions, lockOwner>>

\* ----------------------------------------- reserve_device (main.py:51)
StartReserve(p, d, port) ==
    /\ Accept(p)
    /\ Goto(p, [Idle EXCEPT !.pc = "c_avail", !.op = "reserve", !.did = d,
                            !.reqPort = port])

\* line 57, store.get: hgetall; line 58 when the hash is empty.
ReserveGetHash(p) ==
    /\ proc[p].pc = "r_get1_hash"
    /\ LET h == device[proc[p].did]
           l == [proc[p] EXCEPT !.pre = Snapshot(proc[p].did)]
       IN IF h = EmptyHash
          THEN Goto(p, Finish(l, "NotFound"))
          ELSE Goto(p, [l EXCEPT !.pc = "r_get1_ttl", !.rd = HashToDevice(h)])
    /\ UNCHANGED <<store, calls, workers, budget, sessions, lockOwner>>

\* line 57, store.get: ttl(HB_KEY); lines 60-61.
ReserveGetTtl(p) ==
    /\ proc[p].pc = "r_get1_ttl"
    /\ LET d == Liveness(proc[p].rd, hbKey[proc[p].did])
       IN IF d.status # "available"
          THEN Goto(p, Finish([proc[p] EXCEPT !.rd = NoDevice], "Conflict"))
          ELSE Goto(p, [proc[p] EXCEPT !.pc = "r_lock", !.rd = NoDevice])
    /\ UNCHANGED <<store, calls, workers, budget, sessions, lockOwner>>

\* storage.acquire_lock: set(LOCK_KEY, "1", nx=True, ex=RESERVE_LOCK_TTL).
AcquireLock(d) ==
    /\ ~lockKey[d]
    /\ lockKey' = [lockKey EXCEPT ![d] = TRUE]

\* (mutant of ReleaseLock) the key is left to its TTL.
ReleaseLockSkipped(d) == UNCHANGED lockKey

\* storage.release_lock: delete(LOCK_KEY).
ReleaseLock(d) == lockKey' = [lockKey EXCEPT ![d] = FALSE]

\* lines 63-64.
ReserveLock(p) ==
    /\ proc[p].pc = "r_lock"
    /\ \/ /\ AcquireLock(proc[p].did)
          /\ lockOwner' = [lockOwner EXCEPT ![proc[p].did] = p]
          /\ Goto(p, [proc[p] EXCEPT !.pc = "r_get2_hash"])
       \/ /\ lockKey[proc[p].did]
          /\ Goto(p, Finish(proc[p], "Locked"))
          /\ UNCHANGED <<lockKey, lockOwner>>
    /\ UNCHANGED <<device, statusIdx, platformIdx, hbKey, wdaUsed, wdaPoolLock,
                   poolAvail, poolInUse, calls, workers, budget, sessions>>

\* line 68, store.get under the lock: hgetall; line 69 when the hash is empty.
ReserveRecheckHash(p) ==
    /\ proc[p].pc = "r_get2_hash"
    /\ LET h == device[proc[p].did]
       IN IF h = EmptyHash
          THEN Goto(p, [proc[p] EXCEPT !.pc = "r_unlock", !.outcome = "Conflict"])
          ELSE Goto(p, [proc[p] EXCEPT !.pc = "r_get2_ttl", !.rd = HashToDevice(h)])
    /\ UNCHANGED <<store, calls, workers, budget, sessions, lockOwner>>

\* Which wdaLocalPort step follows the re-check, lines 73-80.
PortStep(d, reqPort) ==
    IF d.platform = "ios"
    THEN IF reqPort # 0 THEN "r_setport"
         ELSE IF d.wda_local_port = 0 THEN "a_lock" ELSE "p_spop"
    ELSE "p_spop"

\* line 68, store.get under the lock: ttl(HB_KEY); lines 69-76.
ReserveRecheckTtl(p) ==
    /\ proc[p].pc = "r_get2_ttl"
    /\ LET d == Liveness(proc[p].rd, hbKey[proc[p].did])
       IN IF d.status # "available"
          THEN Goto(p, [proc[p] EXCEPT !.pc = "r_unlock", !.outcome = "Conflict",
                                       !.rd = NoDevice])
          ELSE Goto(p, [proc[p] EXCEPT
                          !.pc = PortStep(d, proc[p].reqPort),
                          !.rd = d,
                          !.wda = IF d.platform = "ios" /\ proc[p].reqPort # 0
                                  THEN proc[p].reqPort ELSE d.wda_local_port])
    /\ UNCHANGED <<store, calls, workers, budget, sessions, lockOwner>>

\* storage.allocate_wda_port, line 173: set(WDA_POOL_LOCK, nx, ex=5); when the
\* key exists, lines 182-183: sleep and call again.
AllocLock(p) ==
    /\ proc[p].pc = "a_lock"
    /\ ~wdaPoolLock
    /\ wdaPoolLock' = TRUE
    /\ Goto(p, [proc[p] EXCEPT !.pc = "a_scan"])
    /\ UNCHANGED <<device, statusIdx, platformIdx, lockKey, hbKey, wdaUsed,
                   poolAvail, poolInUse, calls, workers, budget, sessions, lockOwner>>

\* _alloc_wda_port_locked, lines 165-169: the first port of the range that is
\* not in `used` (0: none).
FirstFree(used) ==
    LET free == {q \in WDA_PORT_START..WDA_PORT_END : q \notin used}
    IN IF free = {} THEN 0 ELSE CHOOSE q \in free : \A r \in free : q <= r

\* _alloc_wda_port_locked, line 164: used = smembers(WDA_USED_SET).
AllocScan(p) ==
    /\ proc[p].pc = "a_scan"
    /\ Goto(p, [proc[p] EXCEPT !.pc = IF FirstFree(wdaUsed) = 0 THEN "a_unlock"
                                      ELSE "a_sadd",
                               !.wda = FirstFree(wdaUsed)])
    /\ UNCHANGED <<store, calls, workers, budget, sessions, lockOwner>>

\* _alloc_wda_port_locked, line 167: sadd(WDA_USED_SET, p).
AllocAdd(p) ==
    /\ proc[p].pc = "a_sadd"
    /\ wdaUsed' = wdaUsed \cup {proc[p].wda}
    /\ Goto(p, [proc[p] EXCEPT !.pc = "a_unlock"])
    /\ UNCHANGED <<device, statusIdx, platformIdx, lockKey, hbKey, wdaPoolLock,
                   poolAvail, poolInUse, calls, workers, budget, sessions, lockOwner>>

\* allocate_wda_port, line 180: delete(WDA_POOL_LOCK) in the finally; the
\* RuntimeError of line 177 leaves reserve_device through its own finally.
AllocUnlock(p) ==
    /\ proc[p].pc = "a_unlock"
    /\ wdaPoolLock' = FALSE
    /\ IF proc[p].wda = 0
       THEN Goto(p, [proc[p] EXCEPT !.pc = "r_unlock", !.outcome = "RangeExhausted"])
       ELSE Goto(p, [proc[p] EXCEPT !.pc = "r_setport"])
    /\ UNCHANGED <<device, statusIdx, platformIdx, lockKey, hbKey, wdaUsed,
                   poolAvail, poolInUse, calls, workers, budget, sessions, lockOwner>>

\* storage.set_wda_port_on_device, lines 185-190: one pipeline.
SetWdaPortOnDevice(id, port) ==
    /\ device' = [device EXCEPT ![id].wda_local_port = port]
    /\ wdaUsed' = wdaUsed \cup {port}

\* lines 77 and 80.
ReserveSetPort(p) ==
    /\ proc[p].pc = "r_setport"
    /\ SetWdaPortOnDevice(proc[p].rd.device_id, proc[p].wda)
    /\ Goto(p, [proc[p] EXCEPT !.pc = "p_spop"])
    /\ UNCHANGED <<statusIdx, platformIdx, lockKey, hbKey, wdaPoolLock,
                   poolAvail, poolInUse, calls, workers, budget, sessions, lockOwner>>

\* AppiumServerPool.acquire, lines 44-47: spop(AVAILABLE_SET); main.py:84-85.
PoolAcquirePop(p) ==
    /\ proc[p].pc = "p_spop"
    /\ IF poolAvail = {}
       THEN /\ Goto(p, [proc[p] EXCEPT !.pc = "r_unlock", !.outcome = "PoolExhausted"])
            /\ UNCHANGED poolAvail
       ELSE \E s \in poolAvail :
              /\ poolAvail' = poolAvail \ {s}
              /\ Goto(p, [proc[p] EXCEPT !.pc = "p_sadd", !.srv = Normalise(s)])
    /\ UNCHANGED <<device, statusIdx, platformIdx, lockKey, hbKey, wdaUsed,
                   wdaPoolLock, poolInUse, calls, workers, budget, sessions, lockOwner>>

\* AppiumServerPool.acquire, line 49: sadd(IN_USE_SET, server_str).
PoolAcquireAdd(p) ==
    /\ proc[p].pc = "p_sadd"
    /\ poolInUse' = poolInUse \cup {proc[p].srv}
    /\ Goto(p, [proc[p] EXCEPT !.pc = "r_session"])
    /\ UNCHANGED <<device, statusIdx, platformIdx, lockKey, hbKey, wdaUsed,
                   wdaPoolLock, poolAvail, calls, workers, budget, sessions, lockOwner>>

\* appium_controller.start_appium_session: POST {server}/session opens a
\* session on the server, which answers with its id.
StartAppiumSession(server, id, sid) ==
    sessions' = sessions \cup {[server |-> server, device_id |-> id, session_id |-> sid]}

\* appium_controller.stop_appium_session: DELETE {server}/session/{sid}.
StopAppiumSession(server, sid) ==
    sessions' = {x \in sessions : ~(x.server = server /\ x.session_id = sid)}

\* lines 87-95: the session starts, or the call raises.
ReserveStartSession(p) ==
    /\ proc[p].pc = "r_session"
    /\ \/ /\ StartAppiumSession(proc[p].srv, proc[p].rd.device_id, FreshSessionId(p, calls))
          /\ Goto(p, [proc[p] EXCEPT !.pc = "r_store", !.sid = FreshSessionId(p, calls)])
       \/ /\ Goto(p, [proc[p] EXCEPT !.pc = "r_poolrel"])
          /\ UNCHANGED sessions
    /\ UNCHANGED <<store, calls, workers, budget, lockOwner>>

\* pool.release(server) as the handlers call it: main.py:96-97 after a failed
\* session start (then 502), main.py:127-128 in release_device.
PoolReleaseCall(p) ==
    /\ proc[p].pc \in {"r_poolrel", "x_poolrel"}
    /\ PoolRelease(proc[p].srv)
    /\ IF proc[p].pc = "r_poolrel"
       THEN Goto(p, [proc[p] EXCEPT !.pc = "r_unlock", !.outcome = "SessionStartFailed"])
       ELSE Goto(p, [proc[p] EXCEPT !.pc = "x_hget"])
    /\ UNCHANGED <<device, statusIdx, platformIdx, lockKey, hbKey, wdaUsed,
                   wdaPoolLock, calls, workers, budget, sessions, lockOwner>>

\* storage.reserve, lines 125-134: one pipeline.
StoreReserve(id, sid) ==
    /\ device' = [device EXCEPT ![id].status = "in_use", ![id].current_session = sid]
    /\ statusIdx' = [statusIdx EXCEPT !["available"] = @ \ {id},
                                      !["in_use"] = @ \cup {id}]

\* line 99: store.reserve(d.device_id, session_id, server).  The method takes
\* (device_id, session_id): with one argument too many the call raises
\* TypeError before its body runs, and the request ends in an internal error.
ReserveStore(p) ==
    /\ proc[p].pc = "r_store"
    /\ IF ReserveArgsGiven = ReserveArgsTaken
       THEN /\ StoreReserve(proc[p].rd.device_id, proc[p].sid)
            /\ Goto(p, [proc[p] EXCEPT !.pc = "r_unlock", !.outcome = "OK"])
       ELSE /\ UNCHANGED <<device, statusIdx>>
            /\ Goto(p, [proc[p] EXCEPT !.pc = "r_unlock", !.outcome = "InternalError"])
    /\ UNCHANGED <<platformIdx, lockKey, hbKey, wdaUsed, wdaPoolLock, poolAvail,
                   poolInUse, calls, workers, budget, sessions, lockOwner>>

\* lines 106-107: the finally of reserve_device.
ReserveUnlock(p) ==
    /\ proc[p].pc = "r_unlock"
    /\ ReleaseLock(proc[p].did)
    /\ lockOwner' = [d \in Devices |-> IF lockKey'[d] THEN lockOwner[d] ELSE ""]
    /\ Goto(p, [proc[p] EXCEPT !.pc = "done", !.rd = NoDevice])
    /\ UNCHANGED <<device, statusIdx, platformIdx, hbKey, wdaUsed, wdaPoolLock,
                   poolAvail, poolInUse, calls, workers, budget, sessions>>

\* ---------------------------------------- release_device (main.py:109)
StartRelease(p, d) ==
    /\ Accept(p)
    /\ Goto(p, [Idle EXCEPT !.pc = "c_avail", !.op = "release", !.did = d])

\* line 116, store.get: hgetall; line 117 when the hash is empty.
ReleaseGetHash(p) ==
    /\ proc[p].pc = "x_get_hash"
    /\ LET h == device[proc[p].did]
       IN IF h = EmptyHash
          THEN Goto(p, Finish(proc[p], "NotFound"))
          ELSE Goto(p, [proc[p] EXCEPT !.pc = "x_get_ttl", !.rd = HashToDevice(h)])
    /\ UNCHANGED <<store, calls, workers, budget, sessions, lockOwner>>

\* line 116, store.get: ttl(HB_KEY); lines 119-127.  stop_appium_session
\* (lines 122-126) is called when the Device read has a session and a server;
\* it may fail, and its errors are swallowed.
ReleaseGetTtl(p) ==
    /\ proc[p].pc = "x_get_ttl"
    /\ LET d == Liveness(proc[p].rd, hbKey[proc[p].did])
           server == d.appium_server
       IN IF d.status # "in_use"
          THEN /\ Goto(p, Finish([proc[p] EXCEPT !.rd = NoDevice], "Conflict"))
               /\ UNCHANGED sessions
          ELSE /\ Goto(p, [proc[p] EXCEPT
                             !.pc = IF server # NoServer THEN "x_poolrel" ELSE "x_hget",
                             !.rd = NoDevice, !.srv = server])
               /\ IF d.current_session # "" /\ server # NoServer
                  THEN \/ StopAppiumSession(server, d.current_session)
                       \/ UNCHANGED sessions
                  ELSE UNCHANGED sessions
    /\ UNCHANGED <<store, calls, workers, budget, lockOwner>>

\* storage.release, line 138: hget(key, "wda_local_port").
ReleaseReadPort(p) ==
    /\ proc[p].pc = "x_hget"
    /\ Goto(p, [proc[p] EXCEPT !.pc = "x_exec",
                               !.hport = device[proc[p].did].wda_local_port])
    /\ UNCHANGED <<store, calls, workers, budget, sessions, lockOwner>>

\* (mutant of StoreRelease) the port marker is not freed.
StoreReleaseKeepsMarker(id, wdaPort) ==
    /\ device' = [device EXCEPT ![id].status = "available", ![id].current_session = ""]
    /\ statusIdx' = [statusIdx EXCEPT !["in_use"] = @ \ {id},
                                      !["available"] = @ \cup {id}]
    /\ wdaUsed' = wdaUsed

\* storage.release, lines 139-153: one pipeline.
StoreRelease(id, wdaPort) ==
    /\ device' = [device EXCEPT ![id].status = "available", ![id].current_session = ""]
    /\ statusIdx' = [statusIdx EXCEPT !["in_use"] = @ \ {id},
                                      !["available"] = @ \cup {id}]
    /\ wdaUsed' = IF wdaPort # 0 THEN wdaUsed \ {wdaPort} ELSE wdaUsed

\* line 129.
ReleaseExec(p) ==
    /\ proc[p].pc = "x_exec"
    /\ StoreRelease(proc[p].did, proc[p].hport)
    /\ Goto(p, Finish(proc[p], "OK"))
    /\ UNCHANGED <<platformIdx, lockKey, hbKey, wdaPoolLock, poolAvail, poolInUse,
                   calls, workers, budget, sessions, lockOwner>>

\* --------------------------------------------- heartbeat (main.py:132)
StartHeartbeat(p, d) ==
    /\ Accept(p)
    /\ Goto(p, [Idle EXCEPT !.pc = "h_get1", !.op = "heartbeat", !.did = d])

\* lines 134-136, store.get: hgetall.  The ttl read that follows for a known
\* device decides nothing (only `not d` is tested) and is left out.
HeartbeatGet(p) ==
    /\ proc[p].pc = "h_get1"
    /\ IF device[proc[p].did] = EmptyHash
       THEN Goto(p, Finish(proc[p], "NotFound"))
       ELSE Goto(p, [proc[p] EXCEPT !.pc = "h_set"])
    /\ UNCHANGED <<store, calls, workers, budget, sessions, lockOwner>>

\* storage.heartbeat, line 157: set(HB_KEY, "1", ex=HEARTBEAT_TTL).
HeartbeatSet(p) ==
    /\ proc[p].pc = "h_set"
    /\ hbKey' = [hbKey EXCEPT ![proc[p].did] = TRUE]
    /\ Goto(p, [proc[p] EXCEPT !.pc = "h_get2_hash"])
    /\ UNCHANGED <<device, statusIdx, platformIdx, lockKey, wdaUsed, wdaPoolLock,
                   poolAvail, poolInUse, calls, workers, budget, sessions, lockOwner>>

\* storage.heartbeat, line 158, store.get: hgetall.
HeartbeatGetHash(p) ==
    /\ proc[p].pc = "h_get2_hash"
    /\ LET h == device[proc[p].did]
       IN IF h = EmptyHash
          THEN Goto(p, Finish(proc[p], "OK"))
          ELSE Goto(p, [proc[p] EXCEPT !.pc = "h_get2_ttl", !.rd = HashToDevice(h)])
    /\ UNCHANGED <<store, calls, workers, budget, sessions, lockOwner>>

\* storage.heartbeat, line 158, store.get: ttl(HB_KEY); line 159.
HeartbeatGetTtl(p) ==
    /\ proc[p].pc = "h_get2_ttl"
    /\ LET d == Liveness(proc[p].rd, hbKey[proc[p].did])
       IN IF d.status = "offline"
          THEN Goto(p, [proc[p] EXCEPT !.pc = "h_upd_hgetall", !.rd = NoDevice])
          ELSE Goto(p, Finish([proc[p] EXCEPT !.rd = NoDevice], "OK"))
    /\ UNCHANGED <<store, calls, workers, budget, sessions, lockOwner>>

\* storage._update_status, lines 105-108: hgetall; old_status.
UpdateStatusRead(p) ==
    /\ proc[p].pc = "h_upd_hgetall"
    /\ Goto(p, [proc[p] EXCEPT !.pc = "h_upd_exec",
                               !.oldStatus = device[proc[p].did].status])
    /\ UNCHANGED <<store, calls, workers, budget, sessions, lockOwner>>

\* (mutant of StoreUpdateStatus) the status sets are moved, the record's
\* status field is not written.
StoreUpdateStatusIndexOnly(id, oldStatus, newStatus) ==
    /\ device' = device
    /\ statusIdx' =
         IF oldStatus # "" /\ oldStatus # newStatus
         THEN [statusIdx EXCEPT ![oldStatus] = @ \ {id}, ![newStatus] = @ \cup {id}]
         ELSE statusIdx

\* storage._update_status, lines 109-114: one pipeline.
StoreUpdateStatus(id, oldStatus, newStatus) ==
    /\ device' = [device EXCEPT ![id].status = newStatus]
    /\ statusIdx' =
         IF oldStatus # "" /\ oldStatus # newStatus
         THEN [statusIdx EXCEPT ![oldStatus] = @ \ {id}, ![newStatus] = @ \cup {id}]
         ELSE statusIdx

\* storage.heartbeat, line 160: _update_status(device_id, "available").
UpdateStatusExec(p) ==
    /\ proc[p].pc = "h_upd_exec"
    /\ StoreUpdateStatus(proc[p].did, proc[p].oldStatus, "available")
    /\ Goto(p, Finish([proc[p] EXCEPT !.oldStatus = ""], "OK"))
    /\ UNCHANGED <<platformIdx, lockKey, hbKey, wdaUsed, wdaPoolLock, poolAvail,
                   poolInUse, calls, workers, budget, sessions, lockOwner>>

\* ------------------------------------------------------------ key expiry
\* (mutant of ExpireWdaPoolLock) the key is set without ex= and never expires.
WdaPoolLockNeverExpires ==
    /\ FALSE
    /\ UNCHANGED vars

ExpireLock(d) ==
    /\ lockKey[d]
    /\ lockKey' = [lockKey EXCEPT ![d] = FALSE]
    /\ lockOwner' = [lockOwner EXCEPT ![d] = ""]
    /\ UNCHANGED <<device, statusIdx, platformIdx, hbKey, wdaUsed, wdaPoolLock,
                   poolAvail, poolInUse, proc, calls, workers, budget, sessions>>

ExpireHeartbeat(d) ==
    /\ hbKey[d]
    /\ hbKey' = [hbKey EXCEPT ![d] = FALSE]
    /\ UNCHANGED <<device, statusIdx, platformIdx, lockKey, wdaUsed, wdaPoolLock,
                   poolAvail, poolInUse, proc, calls, workers, budget, sessions, lockOwner>>

ExpireWdaPoolLock ==
    /\ wdaPoolLock
    /\ wdaPoolLock' = FALSE
    /\ UNCHANGED <<device, statusIdx, platformIdx, lockKey, hbKey, wdaUsed,
                   poolAvail, poolInUse, proc, calls, workers, budget, sessions, lockOwner>>

Next ==
    \/ \E p \in Procs, id \in Devices : \E d \in RegInputs(id) : StartRegister(p, d)
    \/ \E p \in Procs : RegisterRead(p)
    \/ \E p \in Procs : RegisterExec(p)
    \/ \E p \in Procs : PoolCtorReadAvailable(p)
    \/ \E p \in Procs : PoolCtorReadInUse(p)
    \/ \E p \in Procs : PoolCtorRemoveStale(p)
    \/ \E p \in Procs : PoolCtorAddMissing(p)
    \/ \E p \in Procs, d \in Devices, port \in ReqPorts : StartReserve(p, d, port)
    \/ \E p \in Procs : ReserveGetHash(p)
    \/ \E p \in Procs : ReserveGetTtl(p)
    \/ \E p \in Procs : ReserveLock(p)
    \/ \E p \in Procs : ReserveRecheckHash(p)
    \/ \E p \in Procs : ReserveRecheckTtl(p)
    \/ \E p \in Procs : AllocLock(p)
    \/ \E p \in Procs : AllocScan(p)
    \/ \E p \in Procs : AllocAdd(p)
    \/ \E p \in Procs : AllocUnlock(p)
    \/ \E p \in Procs : ReserveSetPort(p)
    \/ \E p \in Procs : PoolAcquirePop(p)
    \/ \E p \in Procs : PoolAcquireAdd(p)
    \/ \E p \in Procs : ReserveStartSession(p)
    \/ \E p \in Procs : PoolReleaseCall(p)
    \/ \E p \in Procs : ReserveStore(p)
    \/ \E p \in Procs : ReserveUnlock(p)
    \/ \E p \in Procs, d \in Devices : StartRelease(p, d)
    \/ \E p \in Procs : ReleaseGetHash(p)
    \/ \E p \in Procs : ReleaseGetTtl(p)
    \/ \E p \in Procs : ReleaseReadPort(p)
    \/ \E p \in Procs : ReleaseExec(p)
    \/ \E p \in Procs, d \in Devices : StartHeartbeat(p, d)
    \/ \E p \in Procs : HeartbeatGet(p)
    \/ \E p \in Procs : HeartbeatSet(p)
    \/ \E p \in Procs : HeartbeatGetHash(p)
    \/ \E p \in Procs : HeartbeatGetTtl(p)
    \/ \E p \in Procs : UpdateStatusRead(p)
    \/ \E p \in Procs : UpdateStatusExec(p)
    \/ \E d \in Devices : ExpireLock(d)
    \/ \E d \in Devices : ExpireHeartbeat(d)
    \/ ExpireWdaPoolLock

\* The requests above and the two read requests.  get_device and list_devices
\* send no command that writes, so they are left out of Next: a behaviour of
\* NextRead without its read steps is a behaviour of Next.
NextRead ==
    \/ Next
    \/ \E p \in Procs, d \in Devices : StartGetDevice(p, d)
    \/ \E p \in Procs : GetDeviceHash(p)
    \/ \E p \in Procs : GetDeviceTtl(p)
    \/ \E p \in Procs, f \in ListInputs : StartListDevices(p, f)
    \/ \E p \in Procs : ListStatus(p)
    \/ \E p \in Procs : ListPlatform(p)
    \/ \E p \in Procs : ListAll(p)
    \/ \E p \in Procs : ListGetHash(p)
    \/ \E p \in Procs : ListGetTtl(p)

Spec == Init /\ [][Next]_vars
SeqSpec == InitSeq /\ [][Next]_vars
ReadSpec == InitRead /\ [][NextRead]_vars

\* Fair scheduling of the allocator: a worker inside allocate_wda_port keeps
\* running (its set(nx) is tried again every 0.1 s, so it succeeds if the key
\* stays absent), and Redis deletes lock:wdapool once its 5 s have passed.
AllocStep(p) == AllocLock(p) \/ AllocScan(p) \/ AllocAdd(p) \/ AllocUnlock(p)
Fairness ==
    /\ WF_vars(ExpireWdaPoolLock)
    /\ \A p \in Procs : WF_vars(AllocStep(p))
FairSpec == InitCrashed /\ [][Next]_vars /\ Fairness

\* ================================================================ claims
Reserving(p, d) == proc[p].op = "reserve" /\ proc[p].did = d
Ended(p, op, o) == proc[p].op = op /\ proc[p].pc = "done" /\ proc[p].outcome = o
SessionsOf(d) == {x \in sessions : x.device_id = d}

\* C1 (as claimed): mutual exclusion of reserve.  Between two releases of a
\* device at most one reserve call takes it: no device ever has two sessions
\* that reserve calls opened on it.  (No reserve call answers 200, see C3; a
\* call has taken the device when its session start returned an id.)
C1_AtMostOneReserveWins == \A d \in Devices : Cardinality(SessionsOf(d)) <= 1

\* C2 (as claimed): every registered device is in exactly one status set, the
\* one its record's status field names.
C2_StatusIndexInv ==
    \A d \in Devices :
        device[d] # EmptyHash =>
            \A st \in Statuses : d \in statusIdx[st] <=> st = device[d].status

\* C3 (as claimed): when the session start of reserve(d) on server s returned
\* sid, the call stores the lease and succeeds: status in_use, current_session
\* sid, appium_server s, d in the in_use set and not in the available set.
C3_ReserveStoresLease ==
    [][\A p \in Procs :
         (proc[p].pc = "r_store" /\ proc'[p].pc # "r_store") =>
            /\ proc'[p].outcome = "OK"
            /\ device'[proc[p].did].status = "in_use"
            /\ device'[proc[p].did].current_session = proc[p].sid
            /\ HashToDevice(device'[proc[p].did]).appium_server = proc[p].srv
            /\ proc[p].did \in statusIdx'["in_use"]
            /\ proc[p].did \notin statusIdx'["available"]]_vars

\* C4: when the session start fails after a server was acquired, the call
\* returns the server (it is in the available set and not in in_use right
\* after pool.release), ends with SessionStartFailed, and none of its steps
\* from the failure on touches a device record or a status set.
C4_Compensation ==
    [][\A p \in Procs :
         /\ (proc[p].pc = "r_poolrel" /\ proc'[p].pc # "r_poolrel") =>
               /\ proc'[p].pc = "r_unlock"
               /\ proc'[p].outcome = "SessionStartFailed"
               /\ proc[p].srv \in poolAvail'
               /\ proc[p].srv \notin poolInUse'
               /\ device' = device /\ statusIdx' = statusIdx
         /\ (proc[p].pc = "r_unlock" /\ proc[p].outcome = "SessionStartFailed"
               /\ proc'[p].pc # "r_unlock") =>
               /\ Ended(p, "reserve", "SessionStartFailed")'
               /\ poolAvail' = poolAvail /\ poolInUse' = poolInUse
               /\ device' = device /\ statusIdx' = statusIdx]_vars

C4_Witness ==
    \E p \in Procs :
        /\ Ended(p, "reserve", "SessionStartFailed")
        /\ proc[p].srv \in poolAvail /\ proc[p].srv \notin poolInUse
        /\ device[proc[p].did].status = "available"

\* C5 (as claimed): a reserve call that fails leaves the record of its device,
\* the status sets, the port-in-use set and the pool sets as they were when
\* the handler started.
FailureOutcomes ==
    {"NotFound", "Conflict", "Locked", "RangeExhausted", "PoolExhausted",
     "SessionStartFailed"}
C5_FailedReserveChangesNothing ==
    \A p \in Procs :
        (proc[p].op = "reserve" /\ proc[p].pc = "done"
            /\ proc[p].outcome \in FailureOutcomes) =>
            Snapshot(proc[p].did) = proc[p].pre

\* C6: the lock key of a device exists only while a reserve call on that
\* device is between its acquire_lock and its release_lock: every call that
\* took the lock deletes it before it returns, on every path, and once all
\* reserve calls on the device have returned the key is absent.
LockedRegion ==
    {"r_get2_hash", "r_get2_ttl", "a_lock", "a_scan", "a_sadd", "a_unlock",
     "r_setport", "p_spop", "p_sadd", "r_session", "r_poolrel", "r_store",
     "r_unlock"}
C6_LockReleased ==
    \A d \in Devices :
        lockKey[d] => \E p \in Procs : Reserving(p, d) /\ proc[p].pc \in LockedRegion

C6_Witness ==
    \E p, q \in Procs :
        /\ Ended(p, "reserve", "SessionStartFailed")
        /\ Ended(q, "reserve", "InternalError")
        /\ proc[p].did = proc[q].did
        /\ ~lockKey[proc[p].did]

C8_ReleaseReturnsServer ==
    \A p \in Procs :
        Ended(p, "release", "OK") =>
            \A x \in SessionsOf(proc[p].did) :
                x.server \in poolAvail /\ x.server \notin poolInUse

\* C9 (as claimed): two allocate calls that no release separates never return
\* the same port.
Allocated(p) == proc[p].pc = "r_setport" /\ proc[p].reqPort = 0
C9_AllocationsDistinct ==
    \A p, q \in Procs :
        (p # q /\ Allocated(p) /\ Allocated(q)) => proc[p].wda # proc[q].wda

\* C10 (as claimed): the available and in_use sets are disjoint and, once a
\* pool has been constructed, every configured server is in one of them.
PoolInitialised ==
    \E p \in Procs :
        /\ proc[p].op \in {"reserve", "release"}
        /\ proc[p].pc \notin {"c_avail", "c_inuse", "c_srem", "c_sadd"}
C10_PoolPartition ==
    /\ poolAvail \cap poolInUse = {}
    /\ PoolInitialised => \A sv \in PoolServers : sv \in poolAvail \cup poolInUse

\* C13 (as claimed): the stored status and session id of a registered device
\* change only in a step of a reserve, release or heartbeat call on that
\* device; registering it again changes neither.
LeaseOps == {"reserve", "release", "heartbeat"}
C13_OnlyLeaseOpsChangeStatus ==
    [][\A d \in Devices :
         (/\ device[d] # EmptyHash
          /\ \/ device'[d].status # device[d].status
             \/ device'[d].current_session # device[d].current_session) =>
            \E p \in Procs :
                /\ proc[p].did = d
                /\ proc[p].op \in LeaseOps
                /\ proc'[p] # proc[p]]_vars

\* C14 (as claimed): for every registered device the session id and the server
\* endpoint are both set or both empty, and both are empty unless the stored
\* status is in_use.
C14_RecordInv ==
    \A d \in Devices :
        device[d] # EmptyHash =>
            LET dv == HashToDevice(device[d])
            IN /\ dv.current_session # "" <=> dv.appium_server # NoServer
               /\ dv.status # "in_use" =>
                     dv.current_session = "" /\ dv.appium_server = NoServer

\* C15 (as claimed): reserve(d) on a registered device ends with Conflict
\* exactly when the stored status of d is not available; an absent heartbeat
\* key does not make it fail.
C15_ConflictIffStoredNotAvailable ==
    \A p \in Procs :
        (proc[p].op = "reserve" /\ proc[p].pc = "done"
            /\ proc[p].pre.rec # EmptyHash) =>
            (proc[p].outcome = "Conflict" <=> proc[p].pre.rec.status # "available")

\* C18 (as claimed): a reserve call deletes the lock key of its device only
\* when the key present is the one this call set, and a call that fails Locked
\* deletes nothing.
C18_LockDeletedByOwner ==
    [][\A p \in Procs :
         /\ (/\ proc[p].pc = "r_unlock" /\ proc'[p].pc # "r_unlock"
             /\ lockKey[proc[p].did] /\ ~lockKey'[proc[p].did]) =>
               lockOwner[proc[p].did] = p
         /\ (proc[p].pc = "r_lock" /\ proc'[p].outcome = "Locked") =>
               lockKey' = lockKey]_vars

\* C19 (as claimed): two distinct ios devices whose stored status is in_use
\* have different ports, and the port of every in_use ios device is in the
\* port-in-use set.
InUseIos ==
    {d \in Devices : device[d].platform = "ios" /\ device[d].status = "in_use"}
C19_InUsePortsDistinctAndMarked ==
    /\ \A d, e \in InUseIos :
          d # e => device[d].wda_local_port # device[e].wda_local_port
    /\ \A d \in InUseIos : device[d].wda_local_port \in wdaUsed

\* C20 (as claimed): a server that acquire returned to one caller is not
\* returned to another caller before the first has released it.
Holding(p) ==
    /\ proc[p].op = "reserve"
    /\ proc[p].srv # NoServer
    /\ proc[p].outcome # "SessionStartFailed"
C20_NoDoubleHandOut ==
    \A p, q \in Procs :
        (p # q /\ Holding(p) /\ Holding(q)) => proc[p].srv # proc[q].srv

\* C12: heartbeat(d) on an unknown device fails NotFound and creates no
\* heartbeat key.  On a known device it sets the heartbeat key, after which a
\* stored status of available is reported as available; it changes the stored
\* status only from offline to available, and when it has answered the stored
\* status is not offline and d is in the status set of its record only.
C12_Heartbeat ==
    /\ [](\A p \in Procs :
            Ended(p, "heartbeat", "OK") =>
               LET d == proc[p].did
               IN /\ device[d].status \in {"available", "in_use"}
                  /\ \A st \in Statuses :
                        d \in statusIdx[st] <=> st = device[d].status)
    /\ [][\A p \in Procs :
            (proc[p].op = "heartbeat" /\ Busy(p) /\ proc'[p] # proc[p]) =>
               LET d == proc[p].did
               IN /\ proc'[p].outcome = "NotFound" =>
                        /\ device[d] = EmptyHash
                        /\ hbKey' = hbKey /\ device' = device
                  /\ proc[p].pc = "h_set" =>
                        /\ hbKey'[d]
                        /\ device'[d].status = "available" =>
                              Liveness(HashToDevice(device'[d]), hbKey'[d]).status
                                 = "available"
                  /\ proc'[p].outcome = "OK" => device[d] # EmptyHash
                  /\ device'[d].status =
                        IF device[d].status = "offline" /\ proc'[p].outcome = "OK"
                        THEN "available" ELSE device[d].status]_vars

\* An android device is registered offline only: available, it was promoted
\* by the heartbeat that has just answered.
C12_Witness ==
    \E p \in Procs :
        /\ Ended(p, "heartbeat", "OK")
        /\ device[proc[p].did].platform = "android"
        /\ device[proc[p].did].status = "available"
        /\ hbKey[proc[p].did]

\* C17: when register(d) is answered and the same worker is given the same
\* request again, the second call leaves d in exactly one status set, the one
\* it was in after the first call, and leaves the platform sets and the
\* port-in-use set as they were.
C17_RegisterIdempotent ==
    \A p \in Procs :
        (Ended(p, "register", "OK") /\ proc[p].pre # NoSnapshot) =>
            LET now == Snapshot(proc[p].did)
            IN /\ now.idx = proc[p].pre.idx
               /\ now.idx = {proc[p].req.status}
               /\ now.pidx = proc[p].pre.pidx
               /\ now.used = proc[p].pre.used
               /\ now.rec = proc[p].pre.rec

C17_Witness ==
    \E p \in Procs :
        /\ Ended(p, "register", "OK")
        /\ proc[p].pre # NoSnapshot
        /\ proc[p].req.platform = "ios"
        /\ proc[p].req.wda_local_port = 8100
        /\ 8100 \in wdaUsed

\* C11: get(d), and list for each element it returns, reports the stored
\* record with status offline when the stored status is available and the
\* heartbeat key of d does not exist, and with the stored status otherwise; no
\* step of get or list changes a key of the store.
Reported(d) ==
    LET dev == HashToDevice(device[d])
    IN IF dev.status = "available" /\ ~hbKey[d]
       THEN [dev EXCEPT !.status = "offline"] ELSE dev
C11_ReadTimeOverride ==
    [][\A p \in Procs :
         (proc[p].op \in {"get", "list"} /\ Busy(p) /\ proc'[p] # proc[p]) =>
            /\ store' = store
            /\ proc[p].pc \in {"g_ttl", "l_get_ttl"} =>
                  /\ Len(proc'[p].result) = Len(proc[p].result) + 1
                  /\ proc'[p].result[Len(proc'[p].result)] = Reported(proc[p].did)
            /\ proc[p].pc \notin {"g_ttl", "l_get_ttl"} =>
                  proc'[p].result = proc[p].result]_vars

C11_Witness ==
    \E p \in Procs :
        /\ Ended(p, "list", "OK")
        /\ \E i \in 1..Len(proc[p].result) :
              /\ proc[p].result[i].status = "offline"
              /\ device[proc[p].result[i].device_id].status = "available"
        /\ \E i \in 1..Len(proc[p].result) :
              proc[p].result[i].status = "in_use"

\* C16: every call of allocate_wda_port that has started eventually returns a
\* port or fails RangeExhausted, also when the coarse lock was left behind by
\* a holder that crashed and when another caller allocates at the same time.
AllocRegion == {"a_lock", "a_scan", "a_sadd", "a_unlock"}
AllocReturned(p) ==
    \/ proc[p].pc = "r_setport" /\ proc[p].wda # 0
    \/ proc[p].pc = "r_unlock" /\ proc[p].outcome = "RangeExhausted"
====
